---- MODULE Spec2Model ----
(***************************************************************************)
(* A model of zoom_earth_rain_alert.py: one run of main() as a state       *)
(* machine (browser acquisition, page-load retry, refresh, time alignment, *)
(* screenshot, region sampling, decision, notification, cleanup), with the *)
(* pure helpers (clock parsing, time comparison, colour classification,    *)
(* region coverage) as operators.                                          *)
(*                                                                         *)
(* Text is a sequence of one-character strings.  The CJK characters of the *)
(* AM/PM marker are written by their code points: "U4E0A" "U5348" is the   *)
(* morning marker, "U4E0B" "U5348" the afternoon marker.                   *)
(***************************************************************************)
EXTENDS Integers, Sequences, FiniteSets, TLC

VARIABLES
    pc,           \* position of main(): the statement about to run
    trace,        \* the external calls made so far, in order
    exc,          \* the exception propagating out of the try block, or NoExc
    driver,       \* TRUE once main holds the value returned by make_driver
    browser,      \* the browser process: "none", "open", "closed"
    webhook,      \* the configured WEBHOOK (empty text when unset)
    li,           \* index of the page-load loop (range(load_attempts))
    now,          \* datetime.now(tz=bj_tz) as (hour, minute)
    target_hhmm,  \* seek_to_target_time: target (hour, minute)
    i,            \* seek_to_target_time: loop index (range(max_clicks))
    display,      \* the clock panel the page is showing now
    dom,          \* the clock panel as the last read found it
    hhmm,         \* seek_to_target_time: result of the last clock read
    outcome,      \* how alignment ended: "none", "reached", "blocked", "exhausted"
    img,          \* the screenshot
    rgb,          \* avg_color result
    score,        \* rain_score result
    coverage,     \* rain_coverage ratio, as [hit, total]
    cov_dbg,      \* rain_coverage debug text
    ok,           \* the detection decision
    sends,        \* the send_wecom_text calls: [webhook, content, posted, status]
    horizon,      \* polls after which the page no longer changes its clock or blocks a step
    shown,        \* the (hour, minute) numbers the clock panel was drawn from
    ge,           \* result of hhmm_ge(hhmm, target_hhmm) when computed on its own
    args,         \* the arguments of a helper function applied on its own
    ret           \* what that application returned

vars == <<pc, trace, exc, driver, browser, webhook, li, now, target_hhmm, i, dom,
          hhmm, outcome, img, rgb, score, coverage, cov_dbg, ok, sends, horizon,
          shown, ge, args, ret, display>>

-----------------------------------------------------------------------------
(* Program constants. *)

FORECAST_MINUTES == 15
max_clicks == 60
load_attempts == 3
VIEWPORT_WIDTH == 1280
VIEWPORT_HEIGHT == 720
AVG_RADIUS == 7
COVERAGE_RADIUS == 12

-----------------------------------------------------------------------------
(* Text helpers: str.strip, str.upper, the `in` substring test, int(). *)

Digits == {"0", "1", "2", "3", "4", "5", "6", "7", "8", "9"}

DigitVal(c) ==
    CASE c = "0" -> 0 [] c = "1" -> 1 [] c = "2" -> 2 [] c = "3" -> 3
      [] c = "4" -> 4 [] c = "5" -> 5 [] c = "6" -> 6 [] c = "7" -> 7
      [] c = "8" -> 8 [] c = "9" -> 9

IsSpace(c) == c = " "

RECURSIVE lstrip(_)
lstrip(s) == IF s # <<>> /\ IsSpace(Head(s)) THEN lstrip(Tail(s)) ELSE s

RECURSIVE rstrip(_)
rstrip(s) ==
    IF s # <<>> /\ IsSpace(s[Len(s)]) THEN rstrip(SubSeq(s, 1, Len(s) - 1)) ELSE s

strip(s) == rstrip(lstrip(s))

UpperChar(c) ==
    CASE c = "a" -> "A" [] c = "p" -> "P" [] c = "m" -> "M" [] OTHER -> c

upper(s) == [k \in 1..Len(s) |-> UpperChar(s[k])]

\* Python's `sub in s` on strings
Contains(sub, s) ==
    \E k \in 0..(Len(s) - Len(sub)) : SubSeq(s, k + 1, k + Len(sub)) = sub

RECURSIVE DigitsValue(_, _)
DigitsValue(s, acc) ==
    IF s = <<>> THEN acc ELSE DigitsValue(Tail(s), 10 * acc + DigitVal(Head(s)))

\* int(text): surrounding blanks ignored, an optional sign, then one or more
\* digits; anything else raises ValueError (ok = FALSE).
int(s) ==
    LET t == strip(s)
        signed == t # <<>> /\ Head(t) \in {"+", "-"}
        body == IF signed THEN Tail(t) ELSE t
        good == body # <<>> /\ \A k \in 1..Len(body) : body[k] \in Digits
    IN  IF ~good THEN [ok |-> FALSE, val |-> 0]
        ELSE [ok |-> TRUE,
              val |-> IF signed /\ Head(t) = "-"
                      THEN 0 - DigitsValue(body, 0) ELSE DigitsValue(body, 0)]

-----------------------------------------------------------------------------
(* The clock panel and get_map_time_tuple. *)

None == <<>>                      \* Python None; a (hour, minute) tuple is never empty
Truthy(x) == x # None             \* `if hhmm and ...`

PM_ZH == <<"U4E0B", "U5348">>
AM_ZH == <<"U4E0A", "U5348">>

\* An element of the page: found or not, and its text.
El(t) == [present |-> TRUE, text |-> t]
NoEl == [present |-> FALSE, text |-> <<>>]

get_map_time_tuple_NoAm12(d) ==
    IF ~d.hour.present \/ ~d.minute.present \/ ~d.ampm.present THEN None
    ELSE
    LET hour_txt == strip(d.hour.text)
        minute_txt == strip(d.minute.text)
        ampm_txt == strip(d.ampm.text)
    IN  IF hour_txt = <<>> \/ minute_txt = <<>> THEN None
        ELSE IF ~int(hour_txt).ok \/ ~int(minute_txt).ok THEN None
        ELSE
        LET hour == int(hour_txt).val
            minute == int(minute_txt).val
            hour24 ==
                IF Contains(PM_ZH, ampm_txt) \/ Contains(<<"P", "M">>, upper(ampm_txt))
                THEN (IF hour < 12 THEN hour + 12 ELSE hour)
                ELSE hour
        IN  <<hour24, minute>>

get_map_time_tuple_ZeroOnBadText(d) ==
    IF ~d.hour.present \/ ~d.minute.present \/ ~d.ampm.present THEN None
    ELSE
    LET hour_txt == strip(d.hour.text)
        minute_txt == strip(d.minute.text)
    IN  IF hour_txt = <<>> \/ minute_txt = <<>> THEN None
        ELSE <<int(hour_txt).val, int(minute_txt).val>>

get_map_time_tuple(d) ==
    IF ~d.hour.present \/ ~d.minute.present \/ ~d.ampm.present THEN None
    ELSE
    LET hour_txt == strip(d.hour.text)
        minute_txt == strip(d.minute.text)
        ampm_txt == strip(d.ampm.text)
    IN  IF hour_txt = <<>> \/ minute_txt = <<>> THEN None
        ELSE IF ~int(hour_txt).ok \/ ~int(minute_txt).ok THEN None
        ELSE
        LET hour == int(hour_txt).val
            minute == int(minute_txt).val
            hour24 ==
                IF Contains(PM_ZH, ampm_txt) \/ Contains(<<"P", "M">>, upper(ampm_txt))
                THEN (IF hour < 12 THEN hour + 12 ELSE hour)
                ELSE IF Contains(AM_ZH, ampm_txt) \/ Contains(<<"A", "M">>, upper(ampm_txt))
                THEN (IF hour = 12 THEN 0 ELSE hour)
                ELSE hour
        IN  <<hour24, minute>>

-----------------------------------------------------------------------------
(* seek_to_target_time: the target and the comparison. *)

hhmm_ge_StrictMinute(x, y) == x[1] > y[1] \/ (x[1] = y[1] /\ x[2] > y[2])

hhmm_ge(x, y) == x[1] > y[1] \/ (x[1] = y[1] /\ x[2] >= y[2])

\* (target_dt.hour, target_dt.minute) of now + minutes_ahead
TargetOf(t, minutes_ahead) ==
    LET m == (t[1] * 60 + t[2] + minutes_ahead) % 1440
    IN  <<m \div 60, m % 60>>

-----------------------------------------------------------------------------
(* Colour classification.  A pixel is [r, g, b] with integer channels in    *)
(* 0..255.  Hue and saturation are kept as exact fractions: hue = hn / hd   *)
(* degrees, saturation = sn / sd.                                           *)

\* SATURATION_THRESHOLD = 0.26, as SAT_NUM / SAT_DEN
SAT_NUM == 26
SAT_DEN == 100

\* HUE_RANGES_DEG
HUE_RANGES_DEG == << <<170, 260>>, <<0, 60>>, <<260, 330>> >>

Max3(x, y, z) == IF x >= y /\ x >= z THEN x ELSE IF y >= z THEN y ELSE z
Min3(x, y, z) == IF x <= y /\ x <= z THEN x ELSE IF y <= z THEN y ELSE z

\* colorsys.rgb_to_hsv, with h scaled to degrees.  colorsys computes in binary
\* floating point; the fractions here are the values it rounds.  The two agree
\* on which side of a threshold a colour falls except for colours whose exact
\* saturation is SAT_NUM / SAT_DEN or whose exact hue is an end of a hue range,
\* where the rounded value can land on either side.
rgb_to_hsv_deg(p) ==
    LET maxc == Max3(p.r, p.g, p.b)
        minc == Min3(p.r, p.g, p.b)
        d == maxc - minc
    IN  IF minc = maxc THEN [hn |-> 0, hd |-> 1, sn |-> 0, sd |-> 1, v |-> maxc]
        ELSE [hn |-> IF p.r = maxc THEN (60 * (p.g - p.b)) % (360 * d)
                     ELSE IF p.g = maxc THEN (120 * d + 60 * (p.b - p.r)) % (360 * d)
                     ELSE (240 * d + 60 * (p.r - p.g)) % (360 * d),
              hd |-> d, sn |-> d, sd |-> maxc, v |-> maxc]

hue_in_ranges_HalfOpen(hn, hd, ranges) ==
    \E k \in 1..Len(ranges) :
        LET lo == ranges[k][1]
            hi == ranges[k][2]
        IN  IF lo <= hi
            THEN lo * hd <= hn /\ hn < hi * hd
            ELSE hn >= lo * hd \/ hn <= hi * hd

\* hue_in_ranges(h_deg, ranges) with h_deg = hn / hd
hue_in_ranges(hn, hd, ranges) ==
    \E k \in 1..Len(ranges) :
        LET lo == ranges[k][1]
            hi == ranges[k][2]
        IN  IF lo <= hi
            THEN lo * hd <= hn /\ hn <= hi * hd
            ELSE hn >= lo * hd \/ hn <= hi * hd

is_rain_color_NoSaturation(p) ==
    LET hsv == rgb_to_hsv_deg(p)
    IN  IF ~hue_in_ranges(hsv.hn, hsv.hd, HUE_RANGES_DEG)
        THEN [ok |-> FALSE, why |-> "H not in rain band"]
        ELSE [ok |-> TRUE, why |-> "hit rain band"]

is_rain_color(p) ==
    LET hsv == rgb_to_hsv_deg(p)
    IN  IF hsv.sn * SAT_DEN < SAT_NUM * hsv.sd
        THEN [ok |-> FALSE, why |-> "S<threshold"]
        ELSE IF ~hue_in_ranges(hsv.hn, hsv.hd, HUE_RANGES_DEG)
        THEN [ok |-> FALSE, why |-> "H not in rain band"]
        ELSE [ok |-> TRUE, why |-> "hit rain band"]

-----------------------------------------------------------------------------
(* Images.  An image is a width, a height and a pixel map; the pixel map is *)
(* a background colour with one rectangle [px0..px1] x [py0..py1] of a      *)
(* foreground colour.                                                       *)

Rgb(r0, g0, b0) == [r |-> r0, g |-> g0, b |-> b0]

getpixel(im, x, y) ==
    IF im.px0 <= x /\ x <= im.px1 /\ im.py0 <= y /\ y <= im.py1 THEN im.fg ELSE im.bg

Max2(x, y) == IF x >= y THEN x ELSE y
Min2(x, y) == IF x <= y THEN x ELSE y

\* The clamped box of avg_color / rain_coverage: (x0, y0, x1, y1), inclusive.
ClampBox(im, cx, cy, radius) ==
    [x0 |-> Max2(cx - radius, 0), y0 |-> Max2(cy - radius, 0),
     x1 |-> Min2(cx + radius, im.width - 1), y1 |-> Min2(cy + radius, im.height - 1)]

\* img.crop((x0, y0, x1 + 1, y1 + 1)): Pillow rejects a box whose right is
\* less than its left (or lower less than upper) with ValueError from 9.2 on;
\* earlier releases return an image of size zero.  `strict` is which of the
\* two the installed Pillow does.
CropRaises(box, strict) ==
    strict /\ (box.x1 + 1 < box.x0 \/ box.y1 + 1 < box.y0)

\* list(region.getdata()): the coordinates of the cropped pixels
RegionPixels(box) == (box.x0 .. box.x1) \X (box.y0 .. box.y1)

ColoursOf(im) == {im.bg, im.fg}

CountColour(im, box, c) ==
    Cardinality({q \in RegionPixels(box) : getpixel(im, q[1], q[2]) = c})

RECURSIVE SumChannels(_, _, _)
SumChannels(im, box, cs) ==
    IF cs = {} THEN [r |-> 0, g |-> 0, b |-> 0]
    ELSE LET c == CHOOSE x \in cs : TRUE
             n == CountColour(im, box, c)
             rest == SumChannels(im, box, cs \ {c})
         IN  [r |-> rest.r + n * c.r, g |-> rest.g + n * c.g, b |-> rest.b + n * c.b]

\* avg_color: the channel means, kept as channel sums over the pixel count n.
avg_color(im, cx, cy, radius, strict) ==
    LET box == ClampBox(im, cx, cy, radius)
        n == Cardinality(RegionPixels(box))
        s == SumChannels(im, box, ColoursOf(im))
    IN  IF CropRaises(box, strict) THEN [raised |-> TRUE, r |-> 0, g |-> 0, b |-> 0, n |-> 1]
        ELSE IF n = 0 THEN [raised |-> FALSE, r |-> 0, g |-> 0, b |-> 0, n |-> 1]
        ELSE [raised |-> FALSE, r |-> s.r, g |-> s.g, b |-> s.b, n |-> n]

\* rain_score: warm + purple - penalty_green = r + (r + b) * 0.6 - g * 0.9,
\* as the fraction num / den.
rain_score(c) ==
    [num |-> 10 * c.r + 6 * (c.r + c.b) - 9 * c.g, den |-> 10 * c.n]

rain_coverage_FullSquare(im, cx, cy, radius, strict) ==
    LET box == ClampBox(im, cx, cy, radius)
        pixels == RegionPixels(box)
        hit == Cardinality({q \in pixels : is_rain_color(getpixel(im, q[1], q[2])).ok})
    IN  IF CropRaises(box, strict)
        THEN [raised |-> TRUE, hit |-> 0, total |-> 1, dbg |-> "ValueError"]
        ELSE IF pixels = {}
        THEN [raised |-> FALSE, hit |-> 0, total |-> 1, dbg |-> "empty region"]
        ELSE [raised |-> FALSE, hit |-> hit,
              total |-> (2 * radius + 1) * (2 * radius + 1), dbg |-> "region"]

rain_coverage_AverageFirst(im, cx, cy, radius, strict) ==
    LET box == ClampBox(im, cx, cy, radius)
        pixels == RegionPixels(box)
        mean == avg_color(im, cx, cy, radius, strict)
    IN  IF CropRaises(box, strict)
        THEN [raised |-> TRUE, hit |-> 0, total |-> 1, dbg |-> "ValueError"]
        ELSE IF pixels = {}
        THEN [raised |-> FALSE, hit |-> 0, total |-> 1, dbg |-> "empty region"]
        ELSE [raised |-> FALSE,
              hit |-> IF is_rain_color(Rgb(mean.r, mean.g, mean.b)).ok
                      THEN Cardinality(pixels) ELSE 0,
              total |-> Cardinality(pixels), dbg |-> "region"]

\* rain_coverage: ratio = hit / total; the empty region gives 0.0 (0 / 1).
rain_coverage(im, cx, cy, radius, strict) ==
    LET box == ClampBox(im, cx, cy, radius)
        pixels == RegionPixels(box)
        hit == Cardinality({q \in pixels : is_rain_color(getpixel(im, q[1], q[2])).ok})
    IN  IF CropRaises(box, strict)
        THEN [raised |-> TRUE, hit |-> 0, total |-> 1, dbg |-> "ValueError"]
        ELSE IF pixels = {}
        THEN [raised |-> FALSE, hit |-> 0, total |-> 1, dbg |-> "empty region"]
        ELSE [raised |-> FALSE, hit |-> hit, total |-> Cardinality(pixels), dbg |-> "region"]

\* coverage >= 0.10 (main): hit / total >= THRESH_NUM / THRESH_DEN.  The float
\* quotient hit / total and the float 0.10 compare as the exact fractions do:
\* division rounds monotonically, 1 / 10 rounds to the literal 0.10, and any
\* quotient below 1 / 10 with total <= 625 is below it by at least 1 / 6250.
THRESH_NUM == 1
THRESH_DEN == 10

Detects_Strict(cov) == cov.hit * THRESH_DEN > THRESH_NUM * cov.total

Detects(cov) == cov.hit * THRESH_DEN >= THRESH_NUM * cov.total

-----------------------------------------------------------------------------
(* The environment of one run: what the clock, the page, the screenshot and *)
(* the webhook can be.                                                      *)

\* Beijing wall-clock times at which alignment starts (the second crosses
\* midnight once FORECAST_MINUTES are added).
Nows == {<<13, 50>>, <<23, 50>>}

Dom(h, m, ap) == [hour |-> h, minute |-> m, ampm |-> ap]

\* Clock panels the page can show at a read.
Doms ==
    { Dom(El(<<"1">>), El(<<"5", "9">>), El(<<"P", "M">>)),            \* 13:59
      Dom(El(<<"2">>), El(<<"0", "5">>), El(<<"p", "m">>)),            \* 14:05
      Dom(El(<<"1", "2">>), El(<<"0", "3">>), El(AM_ZH)),              \* 00:03
      Dom(El(<<"1", "1">>), El(<<"5", "8">>), El(PM_ZH)),              \* 23:58
      Dom(NoEl, El(<<"5", "9">>), El(<<"P", "M">>)),                   \* hour missing
      Dom(El(<<" ">>), El(<<"5", "9">>), El(<<"P", "M">>)),            \* hour blank
      Dom(El(<<"1">>), El(<<"5", "x">>), El(<<"P", "M">>)),            \* minute not a number
      Dom(El(<<"x">>), El(<<"5", "9">>), El(<<"P", "M">>)),            \* hour not a number
      Dom(El(<<"1">>), El(<<>>), El(<<"P", "M">>)),                    \* minute blank
      Dom(El(<<"1">>), El(<<"5", "9">>), NoEl) }                       \* marker missing

\* The forward-step button as click_next finds it.
Button(f, dis, cl) == [found |-> f, disabled |-> dis, clickable |-> cl]
Buttons ==
    { Button(TRUE, FALSE, TRUE), Button(FALSE, FALSE, FALSE),
      Button(TRUE, TRUE, FALSE), Button(TRUE, FALSE, FALSE) }

GRAY == Rgb(128, 128, 128)
BLUE == Rgb(0, 0, 255)

Image(w, h, bg0, fg0, x0, y0, x1, y1) ==
    [width |-> w, height |-> h, bg |-> bg0, fg |-> fg0,
     px0 |-> x0, py0 |-> y0, px1 |-> x1, py1 |-> y1]

\* In a whole run the page changes its clock panel or blocks the button within
\* its first MaxHorizon polls, and after them does neither for the rest of the
\* alignment.
MaxHorizon == 3

\* Widest column band of rain colour in the screenshots tried.
MaxPatchCols == 3

\* Screenshots: a frame 648 wide, whose sampled region is 20 columns by 25
\* rows, with 0..MaxPatchCols full columns of rain colour in the region; a
\* full frame in rain colour; a frame narrower than the region's left edge.
Screenshots ==
    { Image(648, VIEWPORT_HEIGHT, GRAY, BLUE, 628, 0, 627 + k, VIEWPORT_HEIGHT - 1)
        : k \in 0..MaxPatchCols }
    \cup { Image(VIEWPORT_WIDTH, VIEWPORT_HEIGHT, BLUE, BLUE, 0, 0, 0, 0),
           Image(600, VIEWPORT_HEIGHT, GRAY, BLUE, 0, 0, 0, 0) }

NoImage == Image(0, 0, GRAY, GRAY, 0, 0, 0, 0)

Webhooks == {"", "https://qyapi.weixin.qq.com/cgi-bin/webhook/send?key=k"}

\* What requests.post can come back with: no response at all, or a status.
PostResults == {0, 200, 304, 404, 500}
NetworkError(res) == res = 0

url == "https://zoom.earth/maps/radar/#view=*,**,11z"
RAIN_MARKER == "RAIN_LIKELY"      \* the detection sentence of the message

NoExc == [op |-> "none", n |-> 0]
Exc(o, k) == [op |-> o, n |-> k]

NoAvg == [raised |-> FALSE, r |-> 0, g |-> 0, b |-> 0, n |-> 1]
NoScore == [num |-> 0, den |-> 1]
NoCoverage == [hit |-> 0, total |-> 1]

Count(e) == Cardinality({k \in 1..Len(trace) : trace[k] = e})

-----------------------------------------------------------------------------
(* main() *)

Init ==
    /\ pc = "make_driver"
    /\ trace = <<>>
    /\ exc = NoExc
    /\ driver = FALSE
    /\ browser = "none"
    /\ webhook \in Webhooks
    /\ li = 0
    /\ now = None
    /\ target_hhmm = None
    /\ i = 0
    /\ dom = Dom(NoEl, NoEl, NoEl)
    /\ hhmm = None
    /\ outcome = "none"
    /\ img = NoImage
    /\ rgb = NoAvg
    /\ score = NoScore
    /\ coverage = NoCoverage
    /\ cov_dbg = ""
    /\ ok = FALSE
    /\ sends = <<>>
    /\ horizon = MaxHorizon
    /\ shown = None /\ ge = FALSE
    /\ args = None /\ ret = None
    /\ display = Dom(NoEl, NoEl, NoEl)

\* driver = make_driver(viewport): webdriver.Edge(...) then
\* driver.set_page_load_timeout(60); either call can raise, and main is not
\* yet inside its try block.
MakeDriver ==
    /\ pc = "make_driver"
    /\ \/ /\ driver' = TRUE /\ browser' = "open" /\ pc' = "load" /\ exc' = exc
          /\ trace' = Append(trace, "make_driver")
       \/ /\ driver' = FALSE /\ browser' = "none" /\ pc' = "exit"
          /\ exc' = Exc("webdriver.Edge", 0) /\ trace' = trace
       \/ /\ driver' = FALSE /\ browser' = "open" /\ pc' = "exit"
          /\ exc' = Exc("set_page_load_timeout", 0) /\ trace' = trace
    /\ UNCHANGED <<webhook, li, now, target_hhmm, i, dom, hhmm, outcome, img, rgb,
                   score, coverage, cov_dbg, ok, sends, horizon, shown, ge,
                   args, ret, display>>


\* for i in range(load_attempts): driver.get(url); a failure that is not the
\* last sleeps 3 s and goes round again, the last one re-raises.
LoadRetry_OffByOne(k) == k < load_attempts

LoadRetry(k) == k < load_attempts - 1

LoadPage ==
    /\ pc = "load"
    /\ \/ /\ trace' = Append(trace, "get_ok")
          /\ pc' = "refresh" /\ li' = li /\ exc' = exc
       \/ /\ LoadRetry(li)
          /\ trace' = trace \o <<"get_fail", "sleep3">>
          /\ li' = li + 1 /\ exc' = exc
          /\ pc' = IF li + 1 < load_attempts THEN "load" ELSE "refresh"
       \/ /\ ~LoadRetry(li)
          /\ trace' = Append(trace, "get_fail")
          /\ li' = li /\ exc' = Exc("driver.get", li + 1) /\ pc' = "finally"
    /\ UNCHANGED <<driver, browser, webhook, now, target_hhmm, i, dom, hhmm, outcome,
                   img, rgb, score, coverage, cov_dbg, ok, sends, horizon, shown, ge,
                   args, ret, display>>

\* driver.refresh()
Refresh ==
    /\ pc = "refresh"
    /\ trace' = Append(trace, "refresh")
    /\ \/ pc' = "settle" /\ exc' = exc
       \/ pc' = "finally" /\ exc' = Exc("driver.refresh", 0)
    /\ UNCHANGED <<driver, browser, webhook, li, now, target_hhmm, i, dom, hhmm,
                   outcome, img, rgb, score, coverage, cov_dbg, ok, sends, horizon,
                   shown, ge,
                   args, ret, display>>

\* time.sleep(8)
Settle ==
    /\ pc = "settle"
    /\ trace' = Append(trace, "sleep8")
    /\ pc' = "seek_start"
    /\ UNCHANGED <<exc, driver, browser, webhook, li, now, target_hhmm, i, dom, hhmm,
                   outcome, img, rgb, score, coverage, cov_dbg, ok, sends, horizon,
                   shown, ge,
                   args, ret, display>>

-----------------------------------------------------------------------------
(* seek_to_target_time(driver, FORECAST_MINUTES) *)

\* target_dt = datetime.now(tz=bj_tz) + timedelta(minutes=minutes_ahead).  The
\* page is showing whatever the load, refresh and settle wait left on it.
SeekStart ==
    /\ pc = "seek_start"
    /\ \E t \in Nows :
          /\ now' = t
          /\ target_hhmm' = TargetOf(t, FORECAST_MINUTES)
    /\ \E d \in Doms : display' = d
    /\ i' = 0
    /\ pc' = "seek_read"
    /\ UNCHANGED <<trace, exc, driver, browser, webhook, li, dom, hhmm, outcome, img,
                   rgb, score, coverage, cov_dbg, ok, sends, horizon, shown, ge,
                   args, ret>>

\* if hhmm and hhmm_ge(hhmm, target_hhmm): return
Reached_IgnoresAbsent(h, t) == h = None \/ hhmm_ge(h, t)

Reached(h, t) == Truthy(h) /\ hhmm_ge(h, t)

\* The top of an iteration: read the clock, return if the target is reached.
SeekRead ==
    /\ pc = "seek_read"
    /\ dom' = display
    /\ hhmm' = get_map_time_tuple(display)
    /\ trace' = Append(trace, "read")
    /\ IF Reached(hhmm', target_hhmm)
       THEN outcome' = "reached" /\ pc' = "screenshot"
       ELSE outcome' = outcome /\ pc' = "seek_click"
    /\ UNCHANGED <<exc, driver, browser, webhook, li, now, target_hhmm, i, img, rgb,
                   score, coverage, cov_dbg, ok, sends, horizon, shown, ge,
                   args, ret, display>>

\* click_next: "minute.up" after a click, or NextButtonNotClickable when the
\* button is missing, disabled, or not clickable within the wait.
click_next(btn) ==
    IF ~btn.found \/ btn.disabled THEN "NextButtonNotClickable"
    ELSE IF ~btn.clickable THEN "NextButtonNotClickable"
    ELSE "minute.up"

\* The loop around one advance attempt, from loop index k: a step taken goes
\* round again until range(max_clicks) is used up; NextButtonNotClickable is
\* caught and returns.  pc "screenshot" is the statement after the call.
AfterAdvance_BlockedContinues(res, k) ==
    IF k + 1 < max_clicks
    THEN [i |-> k + 1, outcome |-> "none", pc |-> "seek_read"]
    ELSE [i |-> k + 1, outcome |-> "exhausted", pc |-> "screenshot"]

AfterAdvance_OneMore(res, k) ==
    IF res = "minute.up"
    THEN IF k < max_clicks
         THEN [i |-> k + 1, outcome |-> "none", pc |-> "seek_read"]
         ELSE [i |-> k + 1, outcome |-> "exhausted", pc |-> "screenshot"]
    ELSE [i |-> k, outcome |-> "blocked", pc |-> "screenshot"]

AfterAdvance_StepSkipsRead(res, k) ==
    IF res = "minute.up"
    THEN IF k + 1 < max_clicks
         THEN [i |-> k + 1, outcome |-> "none", pc |-> "seek_click"]
         ELSE [i |-> k + 1, outcome |-> "exhausted", pc |-> "screenshot"]
    ELSE [i |-> k, outcome |-> "blocked", pc |-> "screenshot"]

AfterAdvance_BlockedAborts(res, k) ==
    IF res = "minute.up"
    THEN IF k + 1 < max_clicks
         THEN [i |-> k + 1, outcome |-> "none", pc |-> "seek_read"]
         ELSE [i |-> k + 1, outcome |-> "exhausted", pc |-> "screenshot"]
    ELSE [i |-> k, outcome |-> "blocked", pc |-> "finally"]

AfterAdvance(res, k) ==
    IF res = "minute.up"
    THEN IF k + 1 < max_clicks
         THEN [i |-> k + 1, outcome |-> "none", pc |-> "seek_read"]
         ELSE [i |-> k + 1, outcome |-> "exhausted", pc |-> "screenshot"]
    ELSE [i |-> k, outcome |-> "blocked", pc |-> "screenshot"]

\* The rest of an iteration: one advance attempt.  A click that lands moves
\* the page to its next frame, whose clock panel is whatever the page draws; a
\* click that does not land leaves the page as it was.
SeekClick ==
    /\ pc = "seek_click"
    /\ \E btn \in Buttons :
          LET res == click_next(btn)
              nxt == AfterAdvance(res, i)
          IN  /\ res # "minute.up" => i < horizon
              /\ trace' = Append(trace, IF res = "minute.up"
                                        THEN "advance_ok" ELSE "advance_blocked")
              /\ IF res = "minute.up"
                 THEN \E d \in Doms :
                         /\ i + 1 >= horizon => d = display
                         /\ display' = d
                 ELSE display' = display
              /\ i' = nxt.i
              /\ outcome' = nxt.outcome
              /\ pc' = nxt.pc
    /\ UNCHANGED <<exc, driver, browser, webhook, li, now, target_hhmm, dom, hhmm, img,
                   rgb, score, coverage, cov_dbg, ok, sends, horizon, shown, ge,
                   args, ret>>

-----------------------------------------------------------------------------
(* main(), after alignment *)

\* png = driver.get_screenshot_as_png(); img = Image.open(...); img.save(...)
\* seek_to_target_time has returned: its locals are gone.
Screenshot ==
    /\ pc = "screenshot"
    /\ \/ /\ \E im \in Screenshots : img' = im
          /\ trace' = Append(trace, "screenshot")
          /\ pc' = "sample" /\ exc' = exc
       \/ /\ \E o \in {"get_screenshot_as_png", "Image.open", "img.save"} :
                exc' = Exc(o, 0)
          /\ trace' = trace /\ img' = img /\ pc' = "finally"
    /\ now' = None /\ target_hhmm' = None /\ i' = 0
    /\ dom' = Dom(NoEl, NoEl, NoEl) /\ hhmm' = None
    /\ UNCHANGED <<driver, browser, webhook, li, outcome, rgb, score, coverage,
                   cov_dbg, ok, sends, horizon, shown, ge, args, ret, display>>

sample_x == VIEWPORT_WIDTH \div 2
sample_y == VIEWPORT_HEIGHT \div 2

\* RAIN_SCORE_THRESHOLD = 110.0, printed in the debug line
RAIN_SCORE_THRESHOLD == 110

Decision_ScoreGated(cov, sc) ==
    Detects(cov) /\ sc.num >= RAIN_SCORE_THRESHOLD * sc.den

\* ok = coverage >= 0.10, with the coverage and the score of the sample at hand
Decision(cov, sc) == Detects(cov)

\* rgb = avg_color(...); score = rain_score(rgb);
\* coverage, cov_dbg = rain_coverage(...); ok = coverage >= 0.10
Sampled(im, strict) ==
    LET av == avg_color(im, sample_x, sample_y, AVG_RADIUS, strict)
        cv == rain_coverage(im, sample_x, sample_y, COVERAGE_RADIUS, strict)
        cov == [hit |-> cv.hit, total |-> cv.total]
    IN  [raised |-> av.raised \/ cv.raised,
         op |-> IF av.raised THEN "avg_color" ELSE "rain_coverage",
         rgb |-> av, score |-> rain_score(av), coverage |-> cov,
         cov_dbg |-> cv.dbg, ok |-> Decision(cov, rain_score(av))]

Sample ==
    /\ pc = "sample"
    /\ \E strict \in BOOLEAN :
       LET sm == Sampled(img, strict)
       IN  IF sm.raised
           THEN /\ exc' = Exc(sm.op, 0)
                /\ pc' = "finally"
                /\ trace' = trace
                /\ UNCHANGED <<rgb, score, coverage, cov_dbg, ok>>
           ELSE /\ rgb' = sm.rgb
                /\ score' = sm.score
                /\ coverage' = sm.coverage
                /\ cov_dbg' = sm.cov_dbg
                /\ ok' = sm.ok
                /\ trace' = Append(trace, "sample")
                /\ pc' = "result" /\ exc' = exc
    /\ UNCHANGED <<driver, browser, webhook, li, now, target_hhmm, i, dom, hhmm,
                   outcome, img, sends, horizon, shown, ge, args, ret, display>>

\* debug_msg and msg of main
debug_msg == [sample_xy |-> <<sample_x, sample_y>>, rgb |-> rgb, score |-> score,
              coverage |-> coverage, cov_dbg |-> cov_dbg]

msg == [marker |-> RAIN_MARKER, debug |-> debug_msg, url |-> url]

\* r.raise_for_status(): HTTPError for a 4xx or 5xx status
raise_for_status(status) == 400 <= status /\ status < 600

\* send_wecom_text(webhook, content) when requests.post comes back with res:
\* whether a POST is issued and whether the call raises.
send_wecom_text_PostsAnyway(hook, res) ==
    [posted |-> TRUE, raised |-> NetworkError(res) \/ raise_for_status(res)]

send_wecom_text(hook, res) ==
    IF hook = "" THEN [posted |-> FALSE, raised |-> FALSE]
    ELSE [posted |-> TRUE, raised |-> NetworkError(res) \/ raise_for_status(res)]

\* if ok: send_wecom_text(WEBHOOK, msg)  else: report no rain
Notifies(decision) == decision

Result ==
    /\ pc = "result"
    /\ IF Notifies(ok)
       THEN \E res \in PostResults :
               LET out == send_wecom_text(webhook, res)
               IN  /\ trace' = Append(trace, "send_wecom_text")
                   /\ sends' = Append(sends,
                                       [webhook |-> webhook, content |-> msg,
                                        posted |-> out.posted,
                                        status |-> IF out.posted THEN res ELSE 0])
                   /\ exc' = IF out.raised THEN Exc("requests.post", res) ELSE exc
       ELSE /\ trace' = Append(trace, "no_rain")
            /\ sends' = sends /\ exc' = exc
    /\ pc' = "finally"
    /\ UNCHANGED <<driver, browser, webhook, li, now, target_hhmm, i, dom, hhmm,
                   outcome, img, rgb, score, coverage, cov_dbg, ok, horizon, shown, ge,
                   args, ret, display>>

\* finally: driver.quit(); the exception, if any, goes on out of main.
Cleanup_SkipsOnError ==
    /\ pc = "finally"
    /\ IF exc = NoExc
       THEN trace' = Append(trace, "quit") /\ browser' = "closed"
       ELSE trace' = trace /\ browser' = browser
    /\ pc' = "exit"
    /\ UNCHANGED <<exc, driver, webhook, li, now, target_hhmm, i, dom, hhmm, outcome,
                   img, rgb, score, coverage, cov_dbg, ok, sends, horizon, shown, ge,
                   args, ret, display>>

Cleanup ==
    /\ pc = "finally"
    /\ trace' = Append(trace, "quit")
    /\ browser' = "closed"
    /\ pc' = "exit"
    /\ UNCHANGED <<exc, driver, webhook, li, now, target_hhmm, i, dom, hhmm, outcome,
                   img, rgb, score, coverage, cov_dbg, ok, sends, horizon, shown, ge,
                   args, ret, display>>

Next ==
    \/ MakeDriver
    \/ LoadPage
    \/ Refresh
    \/ Settle
    \/ SeekStart
    \/ SeekRead
    \/ SeekClick
    \/ Screenshot
    \/ Sample
    \/ Result
    \/ Cleanup

Spec == Init /\ [][Next]_vars

TypeOK ==
    /\ pc \in {"make_driver", "load", "refresh", "settle", "seek_start", "seek_read",
               "seek_click", "screenshot", "sample", "result", "finally", "exit",
               "compare", "compared", "clock", "clock_read", "classify",
               "classified", "cover", "covered", "decide", "decided"}
    /\ i \in 0..max_clicks
    /\ li \in 0..load_attempts
    /\ outcome \in {"none", "reached", "blocked", "exhausted"}

-----------------------------------------------------------------------------
(* Alignment on its own: seek_to_target_time entered after a clean load,    *)
(* refresh and settle wait, with the page free to reach the target or block *)
(* at any poll and after any step.  It ends where the call returns          *)
(* (pc = "screenshot").                                                     *)

InitSeek ==
    /\ pc = "seek_start"
    /\ trace = <<"make_driver", "get_ok", "refresh", "sleep8">>
    /\ exc = NoExc
    /\ driver = TRUE
    /\ browser = "open"
    /\ webhook \in Webhooks
    /\ li = 0
    /\ now = None
    /\ target_hhmm = None
    /\ i = 0
    /\ dom = Dom(NoEl, NoEl, NoEl)
    /\ hhmm = None
    /\ outcome = "none"
    /\ img = NoImage
    /\ rgb = NoAvg
    /\ score = NoScore
    /\ coverage = NoCoverage
    /\ cov_dbg = ""
    /\ ok = FALSE
    /\ sends = <<>>
    /\ horizon = max_clicks + 1
    /\ shown = None /\ ge = FALSE
    /\ args = None /\ ret = None
    /\ display = Dom(NoEl, NoEl, NoEl)

NextSeek ==
    \/ SeekStart
    \/ SeekRead
    \/ SeekClick

SpecSeek == InitSeek /\ [][NextSeek]_vars

\* The same with the loop kept running: each statement of the function, once
\* reached, is executed (every wait inside it is bounded by a timeout).
SpecSeekFair == SpecSeek /\ WF_vars(NextSeek)

-----------------------------------------------------------------------------
(* The comparison on its own: every displayed time against every target.    *)
(* The target is computed as seek_to_target_time computes it, from the      *)
(* Beijing wall clock plus FORECAST_MINUTES.                                *)

Times == (0..23) \X (0..59)

InitCmp ==
    /\ pc = "compare"
    /\ trace = <<>>
    /\ exc = NoExc
    /\ driver = TRUE
    /\ browser = "open"
    /\ webhook = ""
    /\ li = 0
    /\ now \in Times
    /\ target_hhmm = None
    /\ i = 0
    /\ dom = Dom(NoEl, NoEl, NoEl)
    /\ hhmm \in Times
    /\ outcome = "none"
    /\ img = NoImage
    /\ rgb = NoAvg
    /\ score = NoScore
    /\ coverage = NoCoverage
    /\ cov_dbg = ""
    /\ ok = FALSE
    /\ sends = <<>>
    /\ horizon = max_clicks
    /\ shown = hhmm /\ ge = FALSE
    /\ args = None /\ ret = None
    /\ display = Dom(NoEl, NoEl, NoEl)

CompareTimes ==
    /\ pc = "compare"
    /\ target_hhmm' = TargetOf(now, FORECAST_MINUTES)
    /\ ge' = hhmm_ge(hhmm, target_hhmm')
    /\ pc' = "compared"
    /\ UNCHANGED <<trace, exc, driver, browser, webhook, li, now, i, dom, hhmm,
                   outcome, img, rgb, score, coverage, cov_dbg, ok, sends, horizon,
                   shown,
                   args, ret, display>>

NextCmp == CompareTimes

SpecCmp == InitCmp /\ [][NextCmp]_vars

-----------------------------------------------------------------------------
(* get_map_time_tuple on its own: panels drawn from every 12-hour reading   *)
(* h:mm with h in 1..12, under each marker the page can carry.              *)

DigitChar(n) ==
    CASE n = 0 -> "0" [] n = 1 -> "1" [] n = 2 -> "2" [] n = 3 -> "3"
      [] n = 4 -> "4" [] n = 5 -> "5" [] n = 6 -> "6" [] n = 7 -> "7"
      [] n = 8 -> "8" [] n = 9 -> "9"

\* n in 0..99 as the page writes it: plain, or zero-padded to two digits
Dec(n) == IF n < 10 THEN <<DigitChar(n)>> ELSE <<DigitChar(n \div 10), DigitChar(n % 10)>>
Dec2(n) == <<DigitChar(n \div 10), DigitChar(n % 10)>>

AM == <<"A", "M">>
PM == <<"P", "M">>
Markers == {AM, PM, <<"a", "m">>, <<" ", "p", "m">>, AM_ZH, PM_ZH, <<>>}

InitClock ==
    /\ pc = "clock"
    /\ trace = <<>>
    /\ exc = NoExc
    /\ driver = TRUE
    /\ browser = "open"
    /\ webhook = ""
    /\ li = 0
    /\ now = None
    /\ target_hhmm = None
    /\ i = 0
    /\ shown \in (1..12) \X (0..59)
    /\ \E mk \in Markers : dom = Dom(El(Dec(shown[1])), El(Dec2(shown[2])), El(mk))
    /\ hhmm = None
    /\ outcome = "none"
    /\ img = NoImage
    /\ rgb = NoAvg
    /\ score = NoScore
    /\ coverage = NoCoverage
    /\ cov_dbg = ""
    /\ ok = FALSE
    /\ sends = <<>>
    /\ horizon = max_clicks
    /\ ge = FALSE
    /\ args = None /\ ret = None
    /\ display = dom

ReadClock ==
    /\ pc = "clock"
    /\ hhmm' = get_map_time_tuple(dom)
    /\ pc' = "clock_read"
    /\ UNCHANGED <<trace, exc, driver, browser, webhook, li, now, target_hhmm, i, dom,
                   outcome, img, rgb, score, coverage, cov_dbg, ok, sends, horizon,
                   shown, ge,
                   args, ret, display>>

NextClock == ReadClock

SpecClock == InitClock /\ [][NextClock]_vars

-----------------------------------------------------------------------------
(* Colour classification on its own: is_rain_color applied to every colour  *)
(* of a palette, and hue_in_ranges applied to hues and range lists given    *)
(* directly, a range that wraps through 0 degrees among them.               *)

\* Channel values of the palette.  On every colour built from them the float
\* conversion of colorsys and the exact fractions give the same verdict.
Shades == {0, 20, 60, 95, 110, 128, 255}
Palette == {Rgb(r0, g0, b0) : r0 \in Shades, g0 \in Shades, b0 \in Shades}

\* Hues in whole degrees handed to hue_in_ranges.
HueInputs == {0, 20, 21, 59, 60, 61, 100, 169, 170, 171, 259, 260, 261, 300,
              329, 330, 331, 349, 350, 359}

\* Range lists handed to hue_in_ranges.
RangeLists ==
    { HUE_RANGES_DEG, << <<260, 330>> >>, << <<350, 20>> >>,
      << <<100, 100>>, <<350, 20>> >>, <<>> }

InitColour ==
    /\ pc = "classify"
    /\ trace = <<>>
    /\ exc = NoExc
    /\ driver = FALSE
    /\ browser = "none"
    /\ webhook = ""
    /\ li = 0
    /\ now = None
    /\ target_hhmm = None
    /\ i = 0
    /\ dom = Dom(NoEl, NoEl, NoEl)
    /\ display = Dom(NoEl, NoEl, NoEl)
    /\ hhmm = None
    /\ outcome = "none"
    /\ img = NoImage
    /\ rgb = NoAvg
    /\ score = NoScore
    /\ coverage = NoCoverage
    /\ cov_dbg = ""
    /\ ok = FALSE
    /\ sends = <<>>
    /\ horizon = max_clicks
    /\ shown = None /\ ge = FALSE
    /\ \E p \in Palette, h \in HueInputs, rs \in RangeLists :
          args = [rgb |-> p, h_deg |-> h, ranges |-> rs]
    /\ ret = None

\* h, s, v = rgb_to_hsv_deg(rgb); is_rain_color(rgb); hue_in_ranges(h_deg, ranges)
Classify ==
    /\ pc = "classify"
    /\ ret' = [hsv |-> rgb_to_hsv_deg(args.rgb),
               rain |-> is_rain_color(args.rgb),
               in_ranges |-> hue_in_ranges(args.h_deg, 1, args.ranges)]
    /\ pc' = "classified"
    /\ UNCHANGED <<trace, exc, driver, browser, webhook, li, now, target_hhmm, i, dom,
                   hhmm, outcome, img, rgb, score, coverage, cov_dbg, ok, sends,
                   horizon, shown, ge, args, display>>

NextColour == Classify

SpecColour == InitColour /\ [][NextColour]_vars

-----------------------------------------------------------------------------
(* rain_coverage on its own: small images, the zero-size ones included,     *)
(* with centres inside, on the edge of and outside the image, under either  *)
(* behaviour of Pillow's crop.                                              *)

\* Largest width and height of the images tried, and largest radius.
MaxSide == 3
MaxRadius == 2

GREEN == Rgb(0, 255, 0)

\* A background of no-rain grey or rain blue, with a rectangle of rain blue or
\* no-rain green: the top-left pixel, the lower right block, the top row.
SmallImages ==
    { Image(w, h, bg0, fg0, pt[1], pt[2], pt[3], pt[4]) :
        w \in 0..MaxSide, h \in 0..MaxSide, bg0 \in {GRAY, BLUE}, fg0 \in {BLUE, GREEN},
        pt \in { <<0, 0, 0, 0>>, <<1, 1, MaxSide, MaxSide>>, <<0, 0, MaxSide, 0>> } }

Centres == (-2 .. MaxSide + 1) \X (-2 .. MaxSide + 1)

InitCover ==
    /\ pc = "cover"
    /\ trace = <<>>
    /\ exc = NoExc
    /\ driver = FALSE
    /\ browser = "none"
    /\ webhook = ""
    /\ li = 0
    /\ now = None
    /\ target_hhmm = None
    /\ i = 0
    /\ dom = Dom(NoEl, NoEl, NoEl)
    /\ display = Dom(NoEl, NoEl, NoEl)
    /\ hhmm = None
    /\ outcome = "none"
    /\ img = NoImage
    /\ rgb = NoAvg
    /\ score = NoScore
    /\ coverage = NoCoverage
    /\ cov_dbg = ""
    /\ ok = FALSE
    /\ sends = <<>>
    /\ horizon = max_clicks
    /\ shown = None /\ ge = FALSE
    /\ \E im \in SmallImages, c \in Centres, rad \in 0..MaxRadius, strict \in BOOLEAN :
          args = [img |-> im, center_xy |-> c, radius |-> rad, strict |-> strict]
    /\ ret = None

\* rain_coverage(img, center_xy, radius), and avg_color over the same region
Cover ==
    /\ pc = "cover"
    /\ ret' = [cov |-> rain_coverage(args.img, args.center_xy[1], args.center_xy[2],
                                     args.radius, args.strict),
               mean |-> avg_color(args.img, args.center_xy[1], args.center_xy[2],
                                  args.radius, args.strict)]
    /\ pc' = "covered"
    /\ UNCHANGED <<trace, exc, driver, browser, webhook, li, now, target_hhmm, i, dom,
                   hhmm, outcome, img, rgb, score, coverage, cov_dbg, ok, sends,
                   horizon, shown, ge, args, display>>

NextCover == Cover

SpecCover == InitCover /\ [][NextCover]_vars

-----------------------------------------------------------------------------
(* The decision of two runs side by side: each run samples its own          *)
(* screenshot as main does and decides; the screenshots differ in the       *)
(* colour around the rain band, hence in mean colour and score.             *)

\* Frames 648 wide with 0..MaxPatchCols columns of rain colour at the left of
\* the coverage region, outside the averaged square, on a grey or a green
\* background.
PairShots ==
    { Image(648, VIEWPORT_HEIGHT, bg0, BLUE, 628, 0, 627 + k, VIEWPORT_HEIGHT - 1) :
        bg0 \in {GRAY, GREEN}, k \in 0..MaxPatchCols }

InitPair ==
    /\ pc = "decide"
    /\ trace = <<>>
    /\ exc = NoExc
    /\ driver = TRUE
    /\ browser = "open"
    /\ webhook = ""
    /\ li = 0
    /\ now = None
    /\ target_hhmm = None
    /\ i = 0
    /\ dom = Dom(NoEl, NoEl, NoEl)
    /\ display = Dom(NoEl, NoEl, NoEl)
    /\ hhmm = None
    /\ outcome = "none"
    /\ img = NoImage
    /\ rgb = NoAvg
    /\ score = NoScore
    /\ coverage = NoCoverage
    /\ cov_dbg = ""
    /\ ok = FALSE
    /\ sends = <<>>
    /\ horizon = max_clicks
    /\ shown = None /\ ge = FALSE
    /\ \E im1 \in PairShots, im2 \in PairShots, strict \in BOOLEAN :
          args = [img1 |-> im1, img2 |-> im2, strict |-> strict]
    /\ ret = None

\* What one run computes from its screenshot, and whether it notifies.
RunOn(im, strict) ==
    LET sm == Sampled(im, strict)
    IN  [rgb |-> sm.rgb, score |-> sm.score, coverage |-> sm.coverage,
         ok |-> sm.ok, notifies |-> Notifies(sm.ok)]

DecidePair ==
    /\ pc = "decide"
    /\ ret' = [run1 |-> RunOn(args.img1, args.strict),
               run2 |-> RunOn(args.img2, args.strict)]
    /\ pc' = "decided"
    /\ UNCHANGED <<trace, exc, driver, browser, webhook, li, now, target_hhmm, i, dom,
                   hhmm, outcome, img, rgb, score, coverage, cov_dbg, ok, sends,
                   horizon, shown, ge, args, display>>

NextPair == DecidePair

SpecPair == InitPair /\ [][NextPair]_vars

-----------------------------------------------------------------------------
(* Observations on the trace. *)

IsAttempt(e) == e \in {"advance_ok", "advance_blocked"}
Attempts == SelectSeq(trace, IsAttempt)
Last(s) == s[Len(s)]
EndsWith(s, e) == Len(s) > 0 /\ Last(s) = e

\* x is strictly before y in hour-then-minute order
Below(x, y) == x[1] < y[1] \/ (x[1] = y[1] /\ x[2] < y[2])

\* The last clock read gave a time at or past the target.
LastReadAtTarget == hhmm # None /\ ~Below(hhmm, target_hhmm)

Returned == pc = "screenshot"

-----------------------------------------------------------------------------
(* C1: for every k in 1..max_clicks, when the first k-1 advance attempts    *)
(* succeed and the k-th is blocked, alignment has made exactly k-1          *)
(* successful steps, one blocked attempt and k clock reads, the blocked     *)
(* attempt is the last thing it did, and it has returned normally with      *)
(* outcome "blocked" and no exception.                                      *)
C1_BlockedStops ==
    \A k \in 1..(max_clicks + 1) :
        (/\ Len(Attempts) >= k
         /\ Attempts[k] = "advance_blocked"
         /\ \A j \in 1..(k - 1) : Attempts[j] = "advance_ok")
        => /\ k <= max_clicks
           /\ Len(Attempts) = k
           /\ Count("advance_ok") = k - 1
           /\ Count("advance_blocked") = 1
           /\ Count("read") = k
           /\ EndsWith(trace, "advance_blocked")
           /\ Returned /\ outcome = "blocked" /\ exc = NoExc

\* Blocked on the 3rd poll: 2 successful steps, 1 blocked attempt.
C1_Witness ==
    /\ Returned /\ outcome = "blocked"
    /\ Attempts = <<"advance_ok", "advance_ok", "advance_blocked">>

(* C2: alignment never makes more than max_clicks advance attempts; when it *)
(* has returned with no attempt blocked and its last clock read not at the  *)
(* target, it made exactly max_clicks attempts (and as many reads), all     *)
(* successful, and returned normally with outcome "exhausted".              *)
C2_ExhaustsBudget ==
    /\ Len(Attempts) <= max_clicks
    /\ (Returned /\ Count("advance_blocked") = 0
          /\ ~(EndsWith(trace, "read") /\ LastReadAtTarget))
       => /\ Len(Attempts) = max_clicks
          /\ Count("advance_ok") = max_clicks
          /\ Count("read") = max_clicks
          /\ outcome = "exhausted" /\ exc = NoExc

C2_Witness ==
    Returned /\ outcome = "exhausted" /\ Count("advance_ok") = max_clicks

(* C3: a clock read that is present and at or past the target (hour first,  *)
(* then minute) ends alignment at once with outcome "reached" and no        *)
(* advance attempt after it; an advance attempt is only ever about to be    *)
(* issued, or was last issued, after a read that was absent or strictly     *)
(* below the target; and outcome "reached" is only ever given by such a     *)
(* read, which is then the last thing alignment did.                        *)
C3_ReachedStops ==
    /\ (EndsWith(trace, "read") /\ LastReadAtTarget)
       => (Returned /\ outcome = "reached" /\ exc = NoExc)
    /\ (pc = "seek_click" \/ (Len(trace) > 0 /\ IsAttempt(Last(trace))))
       => (hhmm = None \/ Below(hhmm, target_hhmm))
    /\ \A k \in 1..Len(trace) :
          IsAttempt(trace[k]) => (k > 1 /\ trace[k - 1] = "read")
    /\ outcome = "reached" => (EndsWith(trace, "read") /\ LastReadAtTarget)

\* Reached at the third read, exactly at the target, after two steps.
C3_Witness ==
    /\ Returned /\ outcome = "reached"
    /\ hhmm = target_hhmm
    /\ Attempts = <<"advance_ok", "advance_ok">>

\* The panel cannot be read: an element is missing, the hour or minute text
\* is blank, or it holds a character no number has.
IsBlank(t) == \A k \in 1..Len(t) : t[k] = " "
NonNumeric(t) == \E k \in 1..Len(t) : t[k] \notin (Digits \cup {" ", "+", "-"})
MinuteNotANumber(d) == d.minute.present /\ NonNumeric(d.minute.text)
Unreadable(d) ==
    \/ ~d.hour.present \/ ~d.minute.present \/ ~d.ampm.present
    \/ IsBlank(d.hour.text) \/ IsBlank(d.minute.text)
    \/ NonNumeric(d.hour.text) \/ NonNumeric(d.minute.text)

(* C8: when the last clock read found the panel unreadable, the read is     *)
(* absent (None), nothing is raised and the outcome is not "reached"; the   *)
(* iteration goes on to its advance attempt, so that once alignment has     *)
(* left that point the trace ends with that read followed by one attempt.   *)
C8_UnreadableIsAbsent ==
    (Count("read") > 0 /\ Unreadable(dom))
    => /\ hhmm = None
       /\ exc = NoExc
       /\ outcome # "reached"
       /\ IF pc = "seek_click"
          THEN EndsWith(trace, "read")
          ELSE /\ Len(trace) >= 2
               /\ trace[Len(trace) - 1] = "read"
               /\ IsAttempt(Last(trace))

\* A non-numeric minute was read and the step after it was taken.
C8_Witness ==
    /\ Count("read") > 0
    /\ MinuteNotANumber(dom)
    /\ EndsWith(trace, "advance_ok")

-----------------------------------------------------------------------------
(* Observations on a whole run. *)

Ended == pc = "exit"
IsLoad(e) == e \in {"get_ok", "get_fail"}
Loads == SelectSeq(trace, IsLoad)
IsPost(c) == c.posted
Posts == SelectSeq(sends, IsPost)
AfterLoadEvents ==
    {"refresh", "sleep8", "read", "advance_ok", "advance_blocked", "screenshot",
     "sample", "send_wecom_text", "no_rain"}

(* C4: once main holds the driver, the browser is released by exactly one   *)
(* driver.quit(), made as the last call of the run: a run that has ended    *)
(* has quit once and left the browser closed, whether it ended normally or  *)
(* with an exception from the load, the refresh, the screenshot, the        *)
(* sampling or the notification; and no quit is made before the end.        *)
C4_BrowserReleasedOnce ==
    /\ Count("quit") <= 1
    /\ (Ended /\ driver)
       => (Count("quit") = 1 /\ EndsWith(trace, "quit") /\ browser = "closed")
    /\ (~Ended) => Count("quit") = 0
    /\ (driver /\ ~Ended) => browser = "open"

\* A run that failed in sampling and still released the browser.
C4_Witness ==
    Ended /\ driver /\ exc.op = "avg_color" /\ Count("quit") = 1

(* C5: the page load is attempted at most load_attempts (3) times; nothing  *)
(* is loaded again after a successful attempt; a failed attempt that is not *)
(* the third is followed by the 3 s wait and the run is then at another     *)
(* attempt or has made it; when all three fail there is no wait after the   *)
(* third, its failure is the exception that propagates, and no refresh,     *)
(* alignment, screenshot, sampling or notification is performed.            *)
C5_LoadRetry ==
    /\ Len(Loads) <= load_attempts
    /\ \A k \in 1..Len(Loads) : Loads[k] = "get_ok" => k = Len(Loads)
    /\ \A k \in 1..Len(trace) :
          (trace[k] = "get_fail"
             /\ Cardinality({j \in 1..k : trace[j] = "get_fail"}) < 3)
          => /\ k + 1 <= Len(trace) /\ trace[k + 1] = "sleep3"
             /\ IF k + 2 <= Len(trace) THEN IsLoad(trace[k + 2]) ELSE pc = "load"
    /\ Count("sleep3") <= 2
    /\ Count("get_fail") = 3
       => /\ pc \in {"finally", "exit"}
          /\ exc = Exc("driver.get", 3)
          /\ \A k \in 1..Len(trace) : trace[k] \notin AfterLoadEvents
          /\ sends = <<>>
    /\ \A k \in 1..Len(trace) :
          trace[k] \in AfterLoadEvents => Count("get_ok") = 1

\* All three attempts failed and the run has ended.
C5_Witness ==
    Ended /\ Count("get_fail") = 3 /\ Count("sleep3") = 2 /\ exc.op = "driver.get"

(* C6: send_wecom_text is called at most once, and only after sampling; a   *)
(* run past the decision has called it exactly when the sampled coverage    *)
(* hit / total is at least 0.10 (10 * hit >= total, boundary included), and *)
(* the message of the call carries the detection marker, the debug record   *)
(* of this run (sample point, mean colour, score, coverage) and the page    *)
(* URL.                                                                     *)
C6_NotifyIffCovered ==
    /\ Len(sends) = Count("send_wecom_text")
    /\ Len(sends) <= 1
    /\ Len(sends) = 1 => Count("sample") = 1
    /\ (pc \in {"finally", "exit"} /\ Count("sample") = 1)
       => (Len(sends) = 1 <=> 10 * coverage.hit >= coverage.total)
    /\ \A k \in 1..Len(sends) :
          /\ sends[k].content.marker = RAIN_MARKER
          /\ sends[k].content.url = "https://zoom.earth/maps/radar/#view=*,**,11z"
          /\ sends[k].content.debug =
                [sample_xy |-> <<640, 360>>, rgb |-> rgb, score |-> score,
                 coverage |-> coverage, cov_dbg |-> cov_dbg]

\* Ratio 0.15 (75 of 500 pixels): one notification call.
C6_Witness ==
    Ended /\ coverage = [hit |-> 75, total |-> 500] /\ Len(sends) = 1

\* Ratio 0.05 and the boundary ratio 0.10, for the record.
C6_WitnessBelow ==
    Ended /\ coverage = [hit |-> 25, total |-> 500] /\ Len(sends) = 0
C6_WitnessBoundary ==
    Ended /\ coverage = [hit |-> 50, total |-> 500] /\ Len(sends) = 1

(* C7: when the webhook POST fails, by a network error or by a response     *)
(* whose status is not 2xx, exactly one POST was made, the failure is the   *)
(* exception that propagates out of main, and the browser was released.     *)
PostFailed(c) == c.posted /\ (NetworkError(c.status) \/ c.status \notin 200..299)
C7_PostFailurePropagates ==
    (Ended /\ \E k \in 1..Len(sends) : PostFailed(sends[k]))
    => /\ Len(Posts) = 1
       /\ exc = Exc("requests.post", Posts[1].status)
       /\ Count("quit") = 1 /\ browser = "closed"

-----------------------------------------------------------------------------
(* C9: for displayed time a and target b, both in [0,23] x [0,59], the      *)
(* comparison says "reached" exactly when a.hour > b.hour, or the hours are *)
(* equal and a.minute >= b.minute; that is the order of minutes since       *)
(* midnight of one day, with no day rollover: (14,5) is reached against     *)
(* (14,0), (13,59) is not reached against (14,0), and (0,1) is not reached  *)
(* against (23,59).                                                         *)
C9_SameDayOrder ==
    pc = "compared"
    => /\ ge <=> (hhmm[1] > target_hhmm[1]
                    \/ (hhmm[1] = target_hhmm[1] /\ hhmm[2] >= target_hhmm[2]))
       /\ ge <=> (60 * hhmm[1] + hhmm[2] >= 60 * target_hhmm[1] + target_hhmm[2])
       /\ (hhmm = <<14, 5>> /\ target_hhmm = <<14, 0>>) => ge
       /\ (hhmm = <<13, 59>> /\ target_hhmm = <<14, 0>>) => ~ge
       /\ (hhmm = <<0, 1>> /\ target_hhmm = <<23, 59>>) => ~ge

\* Just past midnight against a target just before it: not reached.
C9_Witness ==
    pc = "compared" /\ hhmm = <<0, 1>> /\ target_hhmm = <<23, 59>> /\ ~ge

(* C10: a panel showing h:mm with h in 1..12 and the marker AM or PM reads  *)
(* as (0, m) for 12 AM, (12, m) for 12 PM, (h + 12, m) for any other PM     *)
(* hour and (h, m) for any other AM hour, with the hour in 0..23; so        *)
(* 12:30 AM reads (0,30), 12:00 PM reads (12,0) and 3:15 PM reads (15,15).  *)
C10_TwelveHourClock ==
    (pc = "clock_read" /\ dom.ampm.text \in {AM, PM})
    => LET h == shown[1]
           m == shown[2]
       IN  /\ hhmm # None
           /\ hhmm[2] = m
           /\ hhmm[1] \in 0..23
           /\ (dom.ampm.text = AM /\ h = 12) => hhmm[1] = 0
           /\ (dom.ampm.text = PM /\ h = 12) => hhmm[1] = 12
           /\ (dom.ampm.text = PM /\ h # 12) => hhmm[1] = h + 12
           /\ (dom.ampm.text = AM /\ h # 12) => hhmm[1] = h
           /\ dom = Dom(El(<<"1", "2">>), El(<<"3", "0">>), El(AM)) => hhmm = <<0, 30>>
           /\ dom = Dom(El(<<"1", "2">>), El(<<"0", "0">>), El(PM)) => hhmm = <<12, 0>>
           /\ dom = Dom(El(<<"3">>), El(<<"1", "5">>), El(PM)) => hhmm = <<15, 15>>

\* ("12", "30", "AM") has been read as (0, 30).
C10_Witness ==
    /\ pc = "clock_read"
    /\ dom = Dom(El(<<"1", "2">>), El(<<"3", "0">>), El(AM))
    /\ hhmm = <<0, 30>>

-----------------------------------------------------------------------------
(* Observations on a classified colour. *)

Classified == pc = "classified"

\* Saturation of a colour from its channels: 0 for a grey, else
\* (max - min) / max; below the threshold when 100 * (max - min) < 26 * max.
Greyscale(p) == p.r = p.g /\ p.g = p.b
SaturationBelow(p) ==
    \/ Greyscale(p)
    \/ 100 * (Max3(p.r, p.g, p.b) - Min3(p.r, p.g, p.b)) < 26 * Max3(p.r, p.g, p.b)

\* h (= hn / hd degrees) is in the range (lo, hi): the closed interval when
\* lo <= hi, else everything outside the open interval between hi and lo.
InRange(hn, hd, lo, hi) ==
    IF lo <= hi THEN lo * hd <= hn /\ hn <= hi * hd
    ELSE ~(hi * hd < hn /\ hn < lo * hd)

(* C11: a colour whose saturation is below 0.26 is classified not-rain      *)
(* whatever its hue, with the saturation reason and not the hue reason; a   *)
(* grey (saturation 0, hue undefined and reported as 0, which is inside a   *)
(* configured range) is rejected the same way.                              *)
C11_LowSaturationRejected ==
    Classified
    => /\ SaturationBelow(args.rgb)
            <=> ret.hsv.sn * 100 < 26 * ret.hsv.sd
       /\ SaturationBelow(args.rgb)
            => (~ret.rain.ok /\ ret.rain.why = "S<threshold")
       /\ Greyscale(args.rgb)
            => (ret.hsv.sn = 0 /\ ~ret.rain.ok /\ ret.rain.why = "S<threshold")

\* A grey was rejected although the hue reported for it, 0, is in (0, 60).
C11_Witness ==
    /\ Classified /\ args.rgb = GRAY
    /\ ret.hsv.hn = 0 /\ InRange(ret.hsv.hn, ret.hsv.hd, 0, 60)
    /\ ~ret.rain.ok

(* C12: a colour whose saturation is at least 0.26 is classified rain       *)
(* exactly when its hue is in one of the configured ranges (170,260),       *)
(* (0,60), (260,330), ends included; hue_in_ranges accepts a hue exactly    *)
(* when some range of the list accepts it, a range with low <= high as the  *)
(* closed interval and a range with low > high as hue >= low or hue <=      *)
(* high; the single range (260,330) accepts 300 and 330 and rejects 350 and *)
(* 100.                                                                     *)
C12_HueRanges ==
    Classified
    => /\ ~SaturationBelow(args.rgb)
            => (ret.rain.ok
                  <=> \/ InRange(ret.hsv.hn, ret.hsv.hd, 170, 260)
                      \/ InRange(ret.hsv.hn, ret.hsv.hd, 0, 60)
                      \/ InRange(ret.hsv.hn, ret.hsv.hd, 260, 330))
       /\ ret.in_ranges
            <=> \E k \in 1..Len(args.ranges) :
                   InRange(args.h_deg, 1, args.ranges[k][1], args.ranges[k][2])
       /\ args.ranges = << <<260, 330>> >>
            => /\ args.h_deg \in {260, 300, 330} => ret.in_ranges
               /\ args.h_deg \in {100, 350} => ~ret.in_ranges
       /\ args.ranges = << <<350, 20>> >>
            => (ret.in_ranges <=> (args.h_deg >= 350 \/ args.h_deg <= 20))

\* Pure yellow, hue exactly 60, is rain; 330 is accepted by (260,330).
C12_Witness ==
    /\ Classified
    /\ args.rgb = Rgb(255, 255, 0) /\ ret.hsv.hn = 60 * ret.hsv.hd /\ ret.rain.ok
    /\ args.ranges = << <<260, 330>> >> /\ args.h_deg = 330 /\ ret.in_ranges

-----------------------------------------------------------------------------
(* Observations on a region coverage. *)

Covered == pc = "covered"

\* The pixels of the image within `radius` of the centre on both axes.
Near(a, b, rad) == a - b <= rad /\ b - a <= rad
Region ==
    {q \in (0 .. args.img.width - 1) \X (0 .. args.img.height - 1) :
        Near(q[1], args.center_xy[1], args.radius)
          /\ Near(q[2], args.center_xy[2], args.radius)}

RegionColours == {getpixel(args.img, q[1], q[2]) : q \in Region}

(* C13: over a non-empty region whose pixels all have one colour, the       *)
(* ratio is exactly 1 (hit = total = the region's pixel count) when the     *)
(* colour is the rain blue and exactly 0 (hit = 0) when it is the no-rain   *)
(* grey or green, wherever the region lies and whatever its size.           *)
C13_UniformRegion ==
    (Covered /\ ~ret.cov.raised /\ Region # {})
    => /\ RegionColours = {BLUE}
            => (ret.cov.hit = ret.cov.total /\ ret.cov.total = Cardinality(Region))
       /\ (RegionColours = {GRAY} \/ RegionColours = {GREEN})
            => (ret.cov.hit = 0 /\ ret.cov.total = Cardinality(Region))

\* An all-blue region cut down to 2 x 2 by the image's corner: ratio 4 / 4.
C13_Witness ==
    /\ Covered /\ ~ret.cov.raised
    /\ RegionColours = {BLUE} /\ Cardinality(Region) = 4 /\ args.radius = 2
    /\ ret.cov.hit = 4 /\ ret.cov.total = 4

\* The centre lies more than `radius` beyond the image on some axis, so that
\* the clamped box handed to crop has right < left or lower < upper.
BoxInverted ==
    LET cx == args.center_xy[1]
        cy == args.center_xy[2]
    IN  \/ cx - args.radius > args.img.width \/ cx + args.radius < -1
        \/ cy - args.radius > args.img.height \/ cy + args.radius < -1

(* C14: for every image size (zero-size included), every centre and every   *)
(* radius >= 0, rain_coverage does not raise; the pixels it counts are      *)
(* those of the image within the radius of the centre, so 0 <= hit <= total *)
(* and the ratio is in [0, 1]; a corner centre with radius 0 gives a 1 x 1  *)
(* region; an empty region gives ratio 0 with the "empty region" reason.    *)
C14_NeverRaises ==
    Covered
    => /\ ~ret.cov.raised
       /\ 0 <= ret.cov.hit /\ ret.cov.hit <= ret.cov.total
       /\ Region # {} => ret.cov.total = Cardinality(Region)
       /\ (args.radius = 0 /\ args.center_xy = <<0, 0>> /\ Region # {})
            => ret.cov.total = 1
       /\ Region = {} => (ret.cov.hit = 0 /\ ret.cov.dbg = "empty region")

\* What does hold: the call raises exactly when crop rejects an inverted box,
\* and otherwise the rest of C14 is as stated.
RaisesOnlyOnInvertedBox ==
    Covered
    => /\ ret.cov.raised <=> (args.strict /\ BoxInverted)
       /\ ret.cov.raised => Region = {}
       /\ ~ret.cov.raised
            => /\ 0 <= ret.cov.hit /\ ret.cov.hit <= ret.cov.total
               /\ Region # {} => ret.cov.total = Cardinality(Region)
               /\ Region = {} => (ret.cov.hit = 0 /\ ret.cov.dbg = "empty region")

\* Width of the overlap of the closed integer intervals [a0, a1] and [b0, b1].
Overlap(a0, a1, b0, b1) == Max2(0, Min2(a1, b1) - Max2(a0, b0) + 1)

\* Pixels of the region inside the foreground rectangle, by arithmetic on the
\* two boxes.
ForegroundInRegion ==
    LET im == args.img
        cx == args.center_xy[1]
        cy == args.center_xy[2]
        rad == args.radius
    IN  Overlap(Max2(cx - rad, 0), Min2(cx + rad, im.width - 1), im.px0, im.px1)
          * Overlap(Max2(cy - rad, 0), Min2(cy + rad, im.height - 1), im.py0, im.py1)

\* The mean colour of the region, were it a pixel, would classify as rain.
MeanIsRain == is_rain_color(Rgb(ret.mean.r, ret.mean.g, ret.mean.b)).ok

(* C18: over a non-empty region the ratio is the number of pixels that are  *)
(* each of rain colour over the number of pixels of the clamped region: hit *)
(* is the count of blue pixels (foreground and background counted by where  *)
(* they lie), total is the region's size, whatever the class of the         *)
(* region's mean colour.                                                    *)
C18_PerPixelRatio ==
    (Covered /\ ~ret.cov.raised /\ Region # {})
    => /\ ret.cov.total = Cardinality(Region)
       /\ ret.cov.hit =
             (IF args.img.fg = BLUE THEN ForegroundInRegion ELSE 0)
             + (IF args.img.bg = BLUE
                THEN Cardinality(Region) - ForegroundInRegion ELSE 0)

\* One blue pixel among grey ones: the mean colour classifies as rain, the
\* ratio is 1 / 4.
C18_Witness ==
    /\ Covered /\ ~ret.cov.raised
    /\ MeanIsRain
    /\ ret.cov.hit = 1 /\ ret.cov.total = 4

-----------------------------------------------------------------------------
(* C15: with WEBHOOK empty, send_wecom_text issues no HTTP POST and returns *)
(* normally: a run that detected rain with no webhook configured has called *)
(* send_wecom_text once, posted nothing, carries no exception and ends with *)
(* the browser released.                                                    *)
C15_EmptyWebhookOnlyLogs ==
    /\ \A k \in 1..Len(sends) : sends[k].webhook = "" => ~sends[k].posted
    /\ (webhook = "" /\ Count("send_wecom_text") = 1)
       => /\ Len(sends) = 1 /\ Posts = <<>>
          /\ exc = NoExc
          /\ Ended => (Count("quit") = 1 /\ browser = "closed")

\* Rain detected, no webhook, run ended cleanly.
C15_Witness ==
    /\ Ended /\ webhook = "" /\ ok
    /\ Count("send_wecom_text") = 1 /\ Posts = <<>> /\ exc = NoExc

-----------------------------------------------------------------------------
\* The page is showing a readable time at or past the target.
DisplayAtTarget ==
    LET t == get_map_time_tuple(display)
    IN  t # None /\ ~Below(t, target_hhmm)

(* C16: when alignment has returned and the time the page displays is       *)
(* present and at or past the target, the outcome is "reached" and not      *)
(* "exhausted": "exhausted" is only reported when the budget ran out        *)
(* without the displayed clock reaching the target.                         *)
C16_ExhaustedMeansNotReached ==
    (Returned /\ DisplayAtTarget) => (outcome = "reached" /\ outcome # "exhausted")

\* What does hold: "exhausted" is reported straight after the last permitted
\* step, with no clock read after it, whatever the page then shows.
ExhaustedWithoutRereading ==
    outcome = "exhausted"
    => /\ EndsWith(trace, "advance_ok")
       /\ Count("read") = max_clicks /\ Count("advance_ok") = max_clicks
       /\ (hhmm = None \/ Below(hhmm, target_hhmm))

-----------------------------------------------------------------------------
(* Observations on the phases of a run. *)

\* Position of a call in the order of main: browser, load, refresh, settle
\* wait, alignment, screenshot, sampling and decision, result, cleanup.
Phase(e) ==
    CASE e = "make_driver" -> 0
      [] e \in {"get_ok", "get_fail", "sleep3"} -> 1
      [] e = "refresh" -> 2
      [] e = "sleep8" -> 3
      [] e \in {"read", "advance_ok", "advance_blocked"} -> 4
      [] e = "screenshot" -> 5
      [] e = "sample" -> 6
      [] e \in {"send_wecom_text", "no_rain"} -> 7
      [] e = "quit" -> 8

\* Pixels of the 25 x 25 square about the viewport centre (640, 360) that lie
\* in a frame of VIEWPORT_HEIGHT rows: columns 628..652 cut at the frame's
\* width (none when the frame is not wider than 628).
CentreRegionSize == (Min2(652, img.width - 1) - 627) * 25

(* C17: the calls of a run are made in the order load, refresh, settle      *)
(* wait, alignment, screenshot, sampling, result; refresh, settle wait,     *)
(* screenshot, sampling and result happen at most once and only after the   *)
(* one successful load; a run that loaded and ended without an exception    *)
(* made each of them exactly once, with alignment between the settle wait   *)
(* and the screenshot and the sampling taken about the viewport centre; and *)
(* alignment returns to the screenshot with one of the outcomes reached,    *)
(* blocked, exhausted and no exception, so no outcome ends the run.         *)
C17_PhaseOrder ==
    /\ \A k \in 1..(Len(trace) - 1) : Phase(trace[k]) <= Phase(trace[k + 1])
    /\ \A e \in {"get_ok", "refresh", "sleep8", "screenshot", "sample"} : Count(e) <= 1
    /\ Count("send_wecom_text") + Count("no_rain") <= 1
    /\ (Ended /\ Count("get_ok") = 1 /\ exc = NoExc)
       => /\ \A e \in {"refresh", "sleep8", "screenshot", "sample"} : Count(e) = 1
          /\ Count("read") >= 1
          /\ Count("send_wecom_text") + Count("no_rain") = 1
          /\ Count("send_wecom_text") = 1 <=> ok
    /\ Count("sample") = 1
       => IF img.width > 628
          THEN coverage.total = CentreRegionSize /\ cov_dbg = "region"
          ELSE coverage.hit = 0 /\ cov_dbg = "empty region"
    /\ Returned => (outcome \in {"reached", "blocked", "exhausted"} /\ exc = NoExc)
    /\ outcome # "none"
       => /\ pc \in {"screenshot", "sample", "result", "finally", "exit"}
          /\ exc.op \in {"none", "get_screenshot_as_png", "Image.open", "img.save",
                          "avg_color", "rain_coverage", "requests.post"}
          /\ (pc \in {"finally", "exit"} /\ exc = NoExc)
               => (Count("screenshot") = 1 /\ Count("sample") = 1)

\* A run whose alignment was exhausted went on to sample and notify.
C17_Witness ==
    /\ Ended /\ exc = NoExc /\ outcome = "exhausted"
    /\ Count("screenshot") = 1 /\ Count("sample") = 1
    /\ Count("send_wecom_text") = 1

\* The same after a blocked step and after a reached target.
C17_WitnessBlocked ==
    Ended /\ exc = NoExc /\ outcome = "blocked" /\ Count("sample") = 1
C17_WitnessReached ==
    Ended /\ exc = NoExc /\ outcome = "reached" /\ Count("sample") = 1

-----------------------------------------------------------------------------
(* Observations on two runs. *)

Decided == pc = "decided"
SameRatio(c1, c2) == c1.hit * c2.total = c2.hit * c1.total
ScoreAtLeast110(sc) == sc.num >= 110 * sc.den

(* C19: two runs whose coverage ratios are equal make the same decision and *)
(* the same choice whether to notify, whatever their mean colours and       *)
(* whichever side of 110 their scores fall on.                              *)
C19_DecisionFromCoverageAlone ==
    (Decided /\ SameRatio(ret.run1.coverage, ret.run2.coverage))
    => /\ ret.run1.ok = ret.run2.ok
       /\ ret.run1.notifies = ret.run2.notifies

\* Ratio 0.10 in both runs, mean colour grey (score 166.4) in one and green
\* (score -229.5) in the other: both detect and notify.
C19_Witness ==
    /\ Decided
    /\ ret.run1.coverage = [hit |-> 50, total |-> 500]
    /\ ret.run2.coverage = [hit |-> 50, total |-> 500]
    /\ ret.run1.rgb # ret.run2.rgb
    /\ ScoreAtLeast110(ret.run1.score) /\ ~ScoreAtLeast110(ret.run2.score)
    /\ ret.run1.ok /\ ret.run2.ok /\ ret.run1.notifies /\ ret.run2.notifies

-----------------------------------------------------------------------------
\* Alignment has made at most max_clicks reads and attempts, each attempt
\* straight after a read, and as many reads as attempts or one more; once it
\* has returned, one more exactly when the outcome is "reached".
ReadsAndAttempts ==
    /\ Count("read") <= 60
    /\ Len(Attempts) <= 60
    /\ \A k \in 1..Len(trace) :
          IsAttempt(trace[k]) => (k > 1 /\ trace[k - 1] = "read")
    /\ Count("read") - Len(Attempts) \in {0, 1}
    /\ Returned => (Count("read") = Len(Attempts) + 1 <=> outcome = "reached")

(* C20: whatever the page does, alignment returns, having made at most 60   *)
(* clock reads and at most 60 advance attempts, every attempt immediately   *)
(* after a clock read, and the number of reads equal to the number of       *)
(* attempts or one more, one more exactly when the outcome is "reached".    *)
C20_TerminatesWithinBudget == []ReadsAndAttempts /\ <>Returned

\* Reached on the 60th read: 60 reads, 59 attempts.
C20_Witness ==
    /\ Returned /\ outcome = "reached"
    /\ Count("read") = 60 /\ Len(Attempts) = 59

====
